---- MODULE Spec2Model ----
(***************************************************************************)
(* A model of the git2-rs demo repository (src/src/main.rs): a repository  *)
(* handle with an object store, an Index, branch/tag references, HEAD and  *)
(* a working tree, driven by the functions of main.rs.  The libgit2 calls  *)
(* those functions make (index.add_path, index.write_tree, repo.commit,    *)
(* repo.head, repo.branch, repo.set_head, repo.checkout_tree, tree.walk,   *)
(* ...) are modelled by what libgit2 does for the options main.rs passes.  *)
(***************************************************************************)
EXTENDS Naturals, Sequences, FiniteSets, TLC

(***************************************************************************)
(* Bounds of the model.                                                    *)
(***************************************************************************)
MaxCommits == 2
MaxTags == 1
MaxRetags == 2
MaxAddLen == 2
MaxEdits == 2
MaxIterations == 20
MaxFailed == 2
MaxSlow == 2

(***************************************************************************)
(* The universe of the model: file contents, relative paths as sequences   *)
(* of segments ("d/b" is <<"d", "b">>), the entry names in the order a     *)
(* tree lists them, branch and tag names.                                  *)
(***************************************************************************)
Contents == {1, 2}
NoBlob == 0
Names == <<"a", "b", "d", "e", "f", "g", "h", "i", "j", "k">>
Paths == {<<"a">>, <<"d", "b">>, <<"i">>}
IgnoredPaths == {<<"i">>}
Branches == {"main", "b1"}
TagNames == {"t1"}
NoRef == 0

\* A variant that gives every content the same identity.
hash_blob_collides(content) == 1 + Cardinality(Contents)

\* The identity the object store gives a blob: the hash of its content.
hash_blob(content) == content + Cardinality(Contents)

\* The contents the files of the working tree are written with: a.txt in two
\* versions, the other files in one.
FileContents(p) == IF p = <<"a">> THEN Contents ELSE {1}

VARIABLES
    blobs,      \* object store: the blobs, as <<identity, content>>
    trees,      \* object store: the tree objects
    commits,    \* object store: the commits, a commit's id is its position
    tagobjs,    \* object store: the annotated Tag objects, by position
    heads,      \* refs/heads/<name>: a commit id, or NoRef
    tags,       \* refs/tags/<name>: the identity of an object, or NoTag
    HEAD,       \* symbolic (a branch name) or direct (a commit id)
    index,      \* the Index: path -> blob, NoBlob when the path is not staged
    workdir,    \* the working tree: path -> content, NoBlob when no file
    edits,      \* how many times the working tree was edited from outside
    config,     \* the repository configuration: the values of its keys
    bench,      \* the benchmark loop: its counters, durations and result
    last        \* the call that just returned, Idle once the caller went on

vars == <<blobs, trees, commits, tagobjs, heads, tags, HEAD, index, workdir, edits, config,
          bench, last>>

odb == <<blobs, trees, commits, tagobjs>>
refs == <<heads, tags>>

(***************************************************************************)
(* Trees.  A tree object maps entry names to blobs (files) or to child     *)
(* trees (dirs); its identity is its value.                                *)
(***************************************************************************)
EmptyTree == [files |-> [n \in {} |-> NoBlob], dirs |-> [n \in {} |-> NoBlob]]

Staged(idx) == {p \in Paths : idx[p] # NoBlob}

IndexMap(idx) == [p \in Staged(idx) |-> idx[p]]

RECURSIVE BuildTree(_)
BuildTree(m) ==
    LET leaf == {p \in DOMAIN m : Len(p) = 1}
        deep == {p \in DOMAIN m : Len(p) > 1}
        sub(n) == [q \in {Tail(p) : p \in {r \in deep : r[1] = n}} |-> m[<<n>> \o q]]
    IN  [files |-> [n \in {p[1] : p \in leaf} |-> m[<<n>>]],
         dirs  |-> [n \in {p[1] : p \in deep} |-> BuildTree(sub(n))]]

RECURSIVE SubTrees(_)
SubTrees(t) == {t} \cup UNION {SubTrees(t.dirs[n]) : n \in DOMAIN t.dirs}

RECURSIVE TreePaths(_)
TreePaths(t) ==
    {<<n>> : n \in DOMAIN t.files}
        \cup UNION {{<<n>> \o q : q \in TreePaths(t.dirs[n])} : n \in DOMAIN t.dirs}

RECURSIVE TreeBlob(_, _)
TreeBlob(t, p) ==
    IF Len(p) = 1 THEN t.files[p[1]] ELSE TreeBlob(t.dirs[p[1]], Tail(p))

TreeMap(t) == [p \in Paths |-> IF p \in TreePaths(t) THEN TreeBlob(t, p) ELSE NoBlob]

(***************************************************************************)
(* References.  HEAD is symbolic (attached to a branch, which need not     *)
(* exist yet: an unborn branch) or direct (detached at a commit).          *)
(***************************************************************************)
\* What a tag reference holds: the identity of a Tag object or of a commit.
NoTag == [kind |-> "none", id |-> NoRef]
TagId(k) == [kind |-> "tag", id |-> k]
CommitId(c) == [kind |-> "commit", id |-> c]

Symbolic(b) == [kind |-> "symbolic", branch |-> b, oid |-> NoRef]
Direct(c) == [kind |-> "direct", branch |-> "", oid |-> c]

find_commit(c) == c \in 1..Len(commits)

\* repo.head(): the reference HEAD resolves to.  libgit2 returns HEAD itself
\* when it is direct and otherwise the branch reference it names, resolved;
\* the call fails while that branch is unborn.
head_ok == HEAD.kind = "direct" \/ heads[HEAD.branch] # NoRef

repo_head ==
    IF HEAD.kind = "direct"
    THEN [name |-> "HEAD", kind |-> "direct", target |-> HEAD.oid]
    ELSE [name |-> HEAD.branch, kind |-> "direct", target |-> heads[HEAD.branch]]

HeadCommit == repo_head.target

Attached == HEAD.kind = "symbolic"

CommitTree(c) == commits[c].tree

\* repo.find_blob(oid) and blob.content().
find_blob(oid) == \E b \in blobs : b[1] = oid

blob_content(oid) == (CHOOSE b \in blobs : b[1] = oid)[2]

(***************************************************************************)
(* The configuration.  A key holds a string or is not set; set_str fails   *)
(* while the configuration file cannot be written (it is locked).  main    *)
(* configures the user before anything else, which leaves Configured.      *)
(***************************************************************************)
ConfigKeys == {"user.name", "user.email"}
UserNames == {"TestUser", "test_user_0", "test_user_1"}
UserEmails ==
    {"test@example.com", "test_user_0@example.com", "test_user_1@example.com"}
NoValue == ""

Configured ==
    [vals   |-> [k \in ConfigKeys |-> IF k = "user.name" THEN "TestUser"
                                      ELSE "test@example.com"],
     locked |-> FALSE]

\* The record of the call that just returned: its name, whether it returned
\* Ok, the commit it was given or made, the branch or tag name and the paths
\* it was given, what its checkout did to each path of the working tree, and
\* the entries it returned.  For config_git_repo_user: name and paths hold the
\* name and the email it was given, entries the keys it wrote.
NoActs == [p \in Paths |-> "none"]

Synced(op, ok, oid, name, acts) ==
    [op |-> op, ok |-> ok, oid |-> oid, name |-> name, paths |-> <<>>,
     acts |-> acts, entries |-> <<>>]

(***************************************************************************)
(* The benchmark loop (bench.rs): iterations is the number asked for, i    *)
(* the iterations run, failed those that took the Err arm (which only      *)
(* prints), slow the durations pushed that are not the quickest, durations *)
(* the vector handed to BenchmarkResult::new, and result what it returned. *)
(* Outside the benchmark the record is NoBench.                            *)
(***************************************************************************)
ZeroResult ==
    [total_runs |-> 0, successful_runs |-> 0, failed_runs |-> 0, durations |-> <<>>,
     avg_duration |-> 0, pct50_duration |-> 0, pct90_duration |-> 0,
     pct95_duration |-> 0]

NoBench ==
    [iterations |-> 0, i |-> 0, failed |-> 0, slow |-> 0, durations |-> <<>>,
     done |-> FALSE, result |-> ZeroResult]

Returned(op, ok, oid, entries) ==
    [op |-> op, ok |-> ok, oid |-> oid, name |-> "", paths |-> <<>>,
     acts |-> NoActs, entries |-> entries]

Last(op, ok, oid, name, paths) ==
    [op |-> op, ok |-> ok, oid |-> oid, name |-> name, paths |-> paths,
     acts |-> NoActs, entries |-> <<>>]

Failed(op) == Last(op, FALSE, NoRef, "", <<>>)

Idle == Last("idle", TRUE, NoRef, "", <<>>)

Init ==
    /\ blobs = {}
    /\ trees = {}
    /\ commits = <<>>
    /\ tagobjs = <<>>
    /\ heads = [b \in Branches |-> NoRef]
    /\ tags = [t \in TagNames |-> NoTag]
    /\ HEAD = Symbolic("main")
    /\ index = [p \in Paths |-> NoBlob]
    /\ workdir = [p \in Paths |-> NoBlob]
    /\ edits = 0
    /\ config = Configured
    /\ bench = NoBench
    /\ last = Idle

\* The positions inside a call that is followed statement by statement.
InCall == {"switch@set_head", "switch@checkout"}

\* The caller takes the result of the call and goes on to its next statement.
Continue ==
    /\ last # Idle
    /\ last.op \notin InCall
    /\ last' = Idle
    /\ UNCHANGED <<odb, refs, HEAD, index, workdir, edits, config, bench>>

(***************************************************************************)
(* The working tree changes between the calls: main and the benchmarks     *)
(* write and remove files themselves.                                      *)
(***************************************************************************)
WriteFile(p, c) ==
    /\ last = Idle
    /\ edits < MaxEdits
    /\ workdir[p] # c
    /\ workdir' = [workdir EXCEPT ![p] = c]
    /\ edits' = edits + 1
    /\ UNCHANGED <<odb, refs, HEAD, index, last, config, bench>>

RemoveFile(p) ==
    /\ last = Idle
    /\ edits < MaxEdits
    /\ workdir[p] # NoBlob
    /\ workdir' = [workdir EXCEPT ![p] = NoBlob]
    /\ edits' = edits + 1
    /\ UNCHANGED <<odb, refs, HEAD, index, last, config, bench>>

(***************************************************************************)
(* add_files_to_git_repo_index: each listed path in turn is added to the   *)
(* Index from the working tree (its blob written to the object store) when *)
(* the file exists and removed from the Index when it does not; a failed   *)
(* removal is ignored.  A failed add_path returns its error from the       *)
(* function at once.  The Index is written once, after the loop; `index`   *)
(* is the Index object of the open repository, which every later           *)
(* repo.index() hands out again, written or not.                           *)
(***************************************************************************)
AddInputs == UNION {[1..n -> Paths] : n \in 0..MaxAddLen}

\* A path that names a directory of the working tree: it exists when a file
\* is beneath it, and index.add_path fails on it.
DirPaths == {<<"d">>}

AddInputsAny == UNION {[1..n -> Paths \cup DirPaths] : n \in 0..MaxAddLen}

\* file_path.exists()
exists(p) ==
    IF p \in Paths THEN workdir[p] # NoBlob
    ELSE \E q \in Paths :
            Len(q) > Len(p) /\ SubSeq(q, 1, Len(p)) = p /\ workdir[q] # NoBlob

\* A variant that keeps only the blob just written in the store.
add_path_replaces(st, p) ==
    [idx   |-> [st.idx EXCEPT ![p] = hash_blob(workdir[p])],
     blobs |-> {<<hash_blob(workdir[p]), workdir[p]>>},
     ok    |-> TRUE]

add_path(st, p) ==
    IF p \in DirPaths
    THEN [idx |-> st.idx, blobs |-> st.blobs, ok |-> FALSE]
    ELSE [idx   |-> [st.idx EXCEPT ![p] = hash_blob(workdir[p])],
          blobs |-> st.blobs \cup {<<hash_blob(workdir[p]), workdir[p]>>},
          ok    |-> TRUE]

\* A variant that leaves the entry of the absent file staged.
remove_path_keeps(st, p) ==
    [idx |-> st.idx, blobs |-> st.blobs, ok |-> TRUE]

remove_path(st, p) ==
    IF p \in DirPaths
    THEN [idx |-> st.idx, blobs |-> st.blobs, ok |-> TRUE]
    ELSE [idx |-> [st.idx EXCEPT ![p] = NoBlob], blobs |-> st.blobs, ok |-> TRUE]

RECURSIVE AddLoop(_, _)
AddLoop(st, ps) ==
    IF ps = <<>> \/ ~st.ok THEN st
    ELSE AddLoop(IF exists(Head(ps))
                 THEN add_path(st, Head(ps))
                 ELSE remove_path(st, Head(ps)),
                 Tail(ps))

add_files_to_git_repo_index(ps) ==
    /\ last = Idle
    /\ LET st == AddLoop([idx |-> index, blobs |-> blobs, ok |-> TRUE], ps)
       IN  /\ index' = st.idx
           /\ blobs' = st.blobs
           /\ last' = Last("add", st.ok, NoRef, "", ps)
    /\ UNCHANGED <<trees, commits, tagobjs, refs, HEAD, workdir, edits, config, bench>>

(***************************************************************************)
(* commit_index_to_git_repo: write the Index as a tree, take the commit    *)
(* HEAD resolves to as the only parent (none when repo.head() fails), and  *)
(* create the commit through "HEAD": libgit2 moves the branch HEAD is      *)
(* attached to (creating it when unborn), or HEAD itself when detached.    *)
(***************************************************************************)
\* A variant whose tree carries the number of commits made before it.
write_tree_stamped(idx) ==
    [files |-> BuildTree(IndexMap(idx)).files,
     dirs  |-> BuildTree(IndexMap(idx)).dirs,
     stamp |-> Len(commits)]

\* index.write_tree(): the tree of the entries of the Index.
write_tree(idx) == BuildTree(IndexMap(idx))

CommitParents == IF head_ok THEN <<HeadCommit>> ELSE <<>>

\* A variant that always moves HEAD itself, detaching it.
UpdateHeadRefDetached(c) ==
    /\ HEAD' = Direct(c)
    /\ UNCHANGED heads

\* A variant that moves a reference only while HEAD is attached to a branch.
UpdateHeadRefBranchOnly(c) ==
    IF HEAD.kind = "symbolic"
    THEN /\ heads' = [heads EXCEPT ![HEAD.branch] = c]
         /\ UNCHANGED HEAD
    ELSE UNCHANGED <<HEAD, heads>>

UpdateHeadRef(c) ==
    IF HEAD.kind = "symbolic"
    THEN /\ heads' = [heads EXCEPT ![HEAD.branch] = c]
         /\ UNCHANGED HEAD
    ELSE /\ HEAD' = Direct(c)
         /\ UNCHANGED heads

commit_index_to_git_repo ==
    /\ last = Idle
    /\ Len(commits) < MaxCommits
    /\ LET tree == write_tree(index)
           new == Len(commits) + 1
       IN  /\ trees' = trees \cup SubTrees(tree)
           /\ commits' = Append(commits, [tree |-> tree, parents |-> CommitParents])
           /\ UpdateHeadRef(new)
           /\ last' = Last("commit", TRUE, new, "", <<>>)
    /\ UNCHANGED <<blobs, tagobjs, tags, index, workdir, edits, config, bench>>

(***************************************************************************)
(* upsert_tag_to_git_repo and upsert_branch_to_git_repo: the target is the *)
(* given commit, or the commit HEAD resolves to when none is given.        *)
(* repo.tag(.., force = true) stores a new annotated Tag object and points *)
(* refs/tags/<name> at it.  repo.branch(.., force = true) creates or moves *)
(* refs/heads/<name>, and refuses to move the branch that is the current   *)
(* HEAD of the repository.                                                 *)
(***************************************************************************)
NoTarget == 0
OidArgs == 1..(MaxCommits + 1)

TargetOk(target) == IF target = NoTarget THEN head_ok ELSE find_commit(target)

\* A variant that takes the first commit when none is given.
TargetCommitFirst(target) == IF target = NoTarget THEN 1 ELSE target

TargetCommit(target) == IF target = NoTarget THEN HeadCommit ELSE target

\* A variant that makes a lightweight tag: the reference holds the commit.
tag_reference_lightweight(tag_oid, commit) == CommitId(commit)

\* repo.tag(name, target, signature, message, force): what refs/tags/<name>
\* is set to, given the new Tag object and its target.
tag_reference(tag_oid, commit) == TagId(tag_oid)

\* reference.peel_to_commit() of a tag reference.
peel(ref) == IF ref.kind = "tag" THEN tagobjs[ref.id].target ELSE ref.id

\* A variant of repo.tag that never replaces a tag.
tag_refused_existing(name, force) == tags[name] # NoTag

\* repo.tag refuses a name that is taken unless force is set.
tag_refused(name, force) == ~force /\ tags[name] # NoTag

upsert_tag_to_git_repo(name, target) ==
    /\ last = Idle
    /\ IF TargetOk(target) /\ ~tag_refused(name, TRUE)
       THEN /\ tagobjs' = Append(tagobjs, [target |-> TargetCommit(target)])
            /\ tags' = [tags EXCEPT
                           ![name] = tag_reference(Len(tagobjs) + 1, TargetCommit(target))]
            /\ last' = Last("tag", TRUE, TargetCommit(target), name, <<>>)
            /\ UNCHANGED heads
       ELSE /\ last' = Failed("tag")
            /\ UNCHANGED <<tagobjs, refs>>
    /\ UNCHANGED <<blobs, trees, commits, HEAD, index, workdir, edits, config, bench>>

branch_is_head(name) ==
    HEAD.kind = "symbolic" /\ HEAD.branch = name /\ heads[name] # NoRef

\* A variant that does not look the target commit up.
upsert_branch_unchecked(name, target) ==
    /\ last = Idle
    /\ IF target # NoTarget /\ ~branch_is_head(name)
       THEN /\ heads' = [heads EXCEPT ![name] = target]
            /\ last' = Last("branch", TRUE, target, name, <<>>)
       ELSE /\ last' = Failed("branch")
            /\ UNCHANGED heads
    /\ UNCHANGED <<odb, tags, HEAD, index, workdir, edits, config, bench>>

\* A variant that also attaches HEAD to the branch.
upsert_branch_switches(name, target) ==
    /\ last = Idle
    /\ IF TargetOk(target) /\ ~branch_is_head(name)
       THEN /\ heads' = [heads EXCEPT ![name] = TargetCommit(target)]
            /\ HEAD' = Symbolic(name)
            /\ last' = Last("branch", TRUE, TargetCommit(target), name, <<>>)
       ELSE /\ last' = Failed("branch")
            /\ UNCHANGED <<heads, HEAD>>
    /\ UNCHANGED <<odb, tags, index, workdir, edits, config, bench>>

upsert_branch_to_git_repo(name, target) ==
    /\ last = Idle
    /\ IF TargetOk(target) /\ ~branch_is_head(name)
       THEN /\ heads' = [heads EXCEPT ![name] = TargetCommit(target)]
            /\ last' = Last("branch", TRUE, TargetCommit(target), name, <<>>)
       ELSE /\ last' = Failed("branch")
            /\ UNCHANGED heads
    /\ UNCHANGED <<odb, tags, HEAD, index, workdir, edits, config, bench>>

(***************************************************************************)
(* repo.checkout_tree(target, opts) as main.rs calls it: strategy force,   *)
(* remove_untracked and remove_ignored as given.  libgit2 diffs the        *)
(* baseline (the tree of the commit HEAD resolves to at the time of the    *)
(* call) against the target and walks the working tree beside that diff.   *)
(* Per path it decides: "update" (write the target blob, and the Index     *)
(* entry with it), one of the removals (delete the file, and the Index     *)
(* entry with it), "none", or "conflict" (which fails the whole checkout   *)
(* before anything is written; never with force).  Removals: "remove" of a *)
(* path the target drops from the baseline, "remove_tracked" of a file     *)
(* that is in the Index but in neither tree, "remove_untracked",           *)
(* "remove_ignored".                                                       *)
(***************************************************************************)
HeadTreeMap(H, hs) ==
    IF H.kind = "direct" THEN TreeMap(CommitTree(H.oid))
    ELSE IF hs[H.branch] # NoRef THEN TreeMap(CommitTree(hs[H.branch]))
    ELSE [p \in Paths |-> NoBlob]

CheckoutAction(p, T, B, idx, wd, opts) ==
    IF T[p] # NoBlob \/ B[p] # NoBlob
    THEN \* the path is in the baseline-to-target diff
         IF wd[p] = NoBlob
         THEN \* and missing from the working tree
              IF T[p] = NoBlob THEN "remove"
              ELSE IF B[p] = NoBlob THEN "update"
              ELSE IF opts.force THEN "update"
              ELSE IF B[p] = T[p] THEN "none" ELSE "conflict"
         ELSE IF T[p] = NoBlob
              THEN IF hash_blob(wd[p]) # B[p] /\ ~opts.force THEN "conflict" ELSE "remove"
         ELSE IF B[p] = NoBlob
              THEN IF opts.force \/ p \in IgnoredPaths THEN "update" ELSE "conflict"
         ELSE IF hash_blob(wd[p]) \in {B[p], T[p]}
              THEN IF B[p] = T[p] THEN "none" ELSE "update"
         ELSE IF opts.force THEN "update"
         ELSE IF B[p] = T[p] THEN "none" ELSE "conflict"
    ELSE \* the path is in the working tree only
         IF wd[p] = NoBlob THEN "none"
         ELSE IF idx[p] # NoBlob
              THEN (IF opts.force THEN "remove_tracked" ELSE "none")
         ELSE IF p \in IgnoredPaths
              THEN (IF opts.remove_ignored THEN "remove_ignored" ELSE "none")
         ELSE IF opts.remove_untracked THEN "remove_untracked" ELSE "none"

Removals == {"remove", "remove_tracked", "remove_untracked", "remove_ignored"}

checkout_tree(T, B, idx, wd, opts) ==
    LET act == [p \in Paths |-> CheckoutAction(p, T, B, idx, wd, opts)]
        ok == \A p \in Paths : act[p] # "conflict"
    IN  [ok   |-> ok,
         acts |-> act,
         wd   |-> [p \in Paths |-> IF ok /\ act[p] = "update" THEN blob_content(T[p])
                                   ELSE IF ok /\ act[p] \in Removals THEN NoBlob
                                   ELSE wd[p]],
         idx  |-> [p \in Paths |-> IF ok /\ act[p] = "update" THEN T[p]
                                   ELSE IF ok /\ act[p] \in Removals THEN NoBlob
                                   ELSE idx[p]]]

\* Variants of the options: untracked files kept, or no force.
SwitchOptsKeepUntracked ==
    [force |-> TRUE, remove_untracked |-> FALSE, remove_ignored |-> FALSE]
SwitchOpts == [force |-> TRUE, remove_untracked |-> TRUE, remove_ignored |-> FALSE]
ResetOptsKeepUntracked ==
    [force |-> TRUE, remove_untracked |-> FALSE, remove_ignored |-> FALSE]
ResetOpts == [force |-> TRUE, remove_untracked |-> TRUE, remove_ignored |-> FALSE]
RestoreOptsSafe ==
    [force |-> FALSE, remove_untracked |-> TRUE, remove_ignored |-> FALSE]
\* A variant of the options that removes ignored files too.
RestoreOptsRemoveIgnored ==
    [force |-> TRUE, remove_untracked |-> TRUE, remove_ignored |-> TRUE]
RestoreOpts == [force |-> TRUE, remove_untracked |-> TRUE, remove_ignored |-> FALSE]

(***************************************************************************)
(* switch_git_repo_branch: fail unless refs/heads/<name> exists; attach    *)
(* HEAD to it; then, when update_workdir is set, take repo.head() again    *)
(* and check out the tree of the commit it resolves to.                    *)
(***************************************************************************)
\* A variant that skips the lookup of refs/heads/<name>.
find_reference_any(name) == TRUE

find_reference(name) == heads[name] # NoRef

\* A variant that checks the tree out whatever update_workdir is.
switch_always_syncs(name, update_workdir) ==
    /\ last = Idle
    /\ IF ~find_reference(name)
       THEN /\ last' = Failed("switch")
            /\ UNCHANGED <<HEAD, index, workdir>>
       ELSE LET co == checkout_tree(TreeMap(CommitTree(heads[name])),
                                    HeadTreeMap(Symbolic(name), heads),
                                    index, workdir, SwitchOpts)
            IN  /\ HEAD' = Symbolic(name)
                /\ workdir' = co.wd
                /\ index' = co.idx
                /\ last' = IF update_workdir
                           THEN Synced("switch", co.ok, heads[name], name, co.acts)
                           ELSE Last("switch_head", TRUE, heads[name], name, <<>>)
    /\ UNCHANGED <<odb, refs, edits, config, bench>>

switch_git_repo_branch(name, update_workdir) ==
    /\ last = Idle
    /\ IF ~find_reference(name)
       THEN /\ last' = Failed("switch")
            /\ UNCHANGED <<HEAD, index, workdir>>
       ELSE /\ HEAD' = Symbolic(name)
            /\ IF ~update_workdir
               THEN /\ last' = Last("switch_head", TRUE, heads[name], name, <<>>)
                    /\ UNCHANGED <<index, workdir>>
               ELSE IF heads[name] = NoRef
               THEN \* repo.head() fails on the branch HEAD was just attached to
                    /\ last' = Failed("switch")
                    /\ UNCHANGED <<index, workdir>>
               ELSE LET co == checkout_tree(TreeMap(CommitTree(heads[name])),
                                            HeadTreeMap(Symbolic(name), heads),
                                            index, workdir, SwitchOpts)
                    IN  /\ workdir' = co.wd
                        /\ index' = co.idx
                        /\ last' = Synced("switch", co.ok, heads[name], name, co.acts)
    /\ UNCHANGED <<odb, refs, edits, config, bench>>

(***************************************************************************)
(* reset_git_repo_head: look the target commit up; take repo.head(); move  *)
(* the reference by the kind of what repo.head() returned; read the        *)
(* target tree into the Index; check the target tree out, forced.          *)
(* repo.head() returns a resolved reference, so its kind is direct also    *)
(* when HEAD is attached to a branch.                                      *)
(***************************************************************************)
ResetHead(head_ref, target, H, hs) ==
    IF head_ref.kind = "symbolic"
    THEN \* repo.reference(head_ref.name(), target, force = true, ..)
         IF head_ref.name = "HEAD"
         THEN [HEAD |-> Direct(target), heads |-> hs]
         ELSE [HEAD |-> H, heads |-> [hs EXCEPT ![head_ref.name] = target]]
    ELSE \* repo.set_head_detached(target)
         [HEAD |-> Direct(target), heads |-> hs]

\* A variant that adds the entries of the tree to the Index as it stands.
read_tree_merge(tree) ==
    [p \in Paths |-> IF TreeMap(tree)[p] # NoBlob THEN TreeMap(tree)[p] ELSE index[p]]

\* index.read_tree(&target_tree): the Index becomes the tree, flattened.
read_tree(tree) == TreeMap(tree)

\* A variant that reads the tree of the commit HEAD resolved to before the move.
ResetIndexTreeStale(target, head_commit) == CommitTree(head_commit)

\* The tree reset reads into the Index: the target's.
ResetIndexTree(target, head_commit) == CommitTree(target)

\* What the call leaves, from the references, Index and working tree it
\* starts with.
\* A variant that detaches HEAD at the target before looking the commit up.
ResetResultHeadFirst(H, hs, idx, wd, target) ==
    LET ok == find_commit(target) /\ (H.kind = "direct" \/ hs[H.branch] # NoRef)
        head_ref == IF H.kind = "direct"
                    THEN [name |-> "HEAD", kind |-> "direct", target |-> H.oid]
                    ELSE [name |-> H.branch, kind |-> "direct", target |-> hs[H.branch]]
        moved == ResetHead(head_ref, target, H, hs)
        co == checkout_tree(TreeMap(CommitTree(target)),
                            HeadTreeMap(moved.HEAD, moved.heads),
                            read_tree(ResetIndexTree(target, head_ref.target)),
                            wd, ResetOpts)
    IN  IF ok
        THEN [found |-> TRUE, ok |-> co.ok, HEAD |-> moved.HEAD, heads |-> moved.heads,
              index |-> co.idx, workdir |-> co.wd, acts |-> co.acts]
        ELSE [found |-> FALSE, ok |-> FALSE, HEAD |-> Direct(target), heads |-> hs,
              index |-> idx, workdir |-> wd, acts |-> NoActs]

ResetResult(H, hs, idx, wd, target) ==
    LET ok == find_commit(target) /\ (H.kind = "direct" \/ hs[H.branch] # NoRef)
        head_ref == IF H.kind = "direct"
                    THEN [name |-> "HEAD", kind |-> "direct", target |-> H.oid]
                    ELSE [name |-> H.branch, kind |-> "direct", target |-> hs[H.branch]]
        moved == ResetHead(head_ref, target, H, hs)
        co == checkout_tree(TreeMap(CommitTree(target)),
                            HeadTreeMap(moved.HEAD, moved.heads),
                            read_tree(ResetIndexTree(target, head_ref.target)),
                            wd, ResetOpts)
    IN  IF ok
        THEN [found |-> TRUE, ok |-> co.ok, HEAD |-> moved.HEAD, heads |-> moved.heads,
              index |-> co.idx, workdir |-> co.wd, acts |-> co.acts]
        ELSE [found |-> FALSE, ok |-> FALSE, HEAD |-> H, heads |-> hs,
              index |-> idx, workdir |-> wd, acts |-> NoActs]

reset_git_repo_head(target) ==
    /\ last = Idle
    /\ LET r == ResetResult(HEAD, heads, index, workdir, target)
       IN  /\ HEAD' = r.HEAD
           /\ heads' = r.heads
           /\ index' = r.index
           /\ workdir' = r.workdir
           /\ last' = IF r.found THEN Synced("reset", r.ok, target, "", r.acts)
                      ELSE Failed("reset")
    /\ UNCHANGED <<odb, tags, edits, config, bench>>

(***************************************************************************)
(* clean_git_repo_index: clear the Index and write it.                     *)
(***************************************************************************)
\* A variant of index.clear() that drops nothing.
index_clear_keeps == index

\* index.clear(): no entry is left.
index_clear == [p \in Paths |-> NoBlob]

clean_git_repo_index ==
    /\ last = Idle
    /\ index' = index_clear
    /\ last' = Last("clean", TRUE, NoRef, "", <<>>)
    /\ UNCHANGED <<odb, refs, HEAD, workdir, edits, config, bench>>

(***************************************************************************)
(* restore_git_repo_head_to_workdir: check out, forced, the tree of the    *)
(* commit HEAD resolves to.                                                *)
(***************************************************************************)
restore_git_repo_head_to_workdir ==
    /\ last = Idle
    /\ IF ~head_ok
       THEN /\ last' = Failed("restore")
            /\ UNCHANGED <<index, workdir>>
       ELSE LET co == checkout_tree(TreeMap(CommitTree(HeadCommit)),
                                    HeadTreeMap(HEAD, heads), index, workdir,
                                    RestoreOpts)
            IN  /\ workdir' = co.wd
                /\ index' = co.idx
                /\ last' = Synced("restore", co.ok, HeadCommit, "", co.acts)
    /\ UNCHANGED <<odb, refs, HEAD, edits, config, bench>>

(***************************************************************************)
(* traverse_git_repo_commit_tree_recorder: walk the commit's tree in       *)
(* pre-order, entries of a tree in name order, and record for each entry   *)
(* entry.name() (the entry's own name within its tree), its id and kind.   *)
(* The root argument of the walk callback is not used.  The commit is the  *)
(* given one, or the commit HEAD resolves to when none is given.           *)
(***************************************************************************)
TreeEntry(relative_path, oid, kind) ==
    [relative_path |-> relative_path, oid |-> oid, kind |-> kind]

RECURSIVE walk(_, _, _)
walk(t, root, i) ==
    IF i > Len(Names) THEN <<>>
    ELSE LET n == Names[i]
         IN  (IF n \in DOMAIN t.files
              THEN <<[root |-> root, name |-> n, id |-> t.files[n], kind |-> "blob"]>>
              ELSE IF n \in DOMAIN t.dirs
              THEN <<[root |-> root, name |-> n, id |-> t.dirs[n], kind |-> "tree"]>>
                       \o walk(t.dirs[n], root \o <<n>>, 1)
              ELSE <<>>)
             \o walk(t, root, i + 1)

Recorder(es) == [k \in 1..Len(es) |-> TreeEntry(<<es[k].name>>, es[k].id, es[k].kind)]

\* commit.tree() finds the root tree object; the walk loads every tree
\* beneath it and fails on one that is missing from the object store.
find_tree(t) == t \in trees

walk_ok(t) == SubTrees(t) \subseteq trees

traverse_git_repo_commit_tree_recorder(c) ==
    /\ last = Idle
    /\ last' = IF TargetOk(c) /\ walk_ok(CommitTree(TargetCommit(c)))
               THEN Returned("traverse", TRUE, TargetCommit(c),
                             Recorder(walk(CommitTree(TargetCommit(c)), <<>>, 1)))
               ELSE Failed("traverse")
    /\ UNCHANGED <<odb, refs, HEAD, index, workdir, edits, config, bench>>

Next ==
    \/ Continue
    \/ \E p \in Paths : \E c \in FileContents(p) : WriteFile(p, c)
    \/ \E p \in Paths : RemoveFile(p)
    \/ \E ps \in AddInputs : add_files_to_git_repo_index(ps)
    \/ commit_index_to_git_repo
    \/ \E b \in Branches, c \in {NoTarget} \cup OidArgs : upsert_branch_to_git_repo(b, c)
    \/ \E b \in Branches, u \in BOOLEAN : switch_git_repo_branch(b, u)
    \/ \E c \in OidArgs : reset_git_repo_head(c)
    \/ clean_git_repo_index
    \/ restore_git_repo_head_to_workdir
    \/ \E c \in {NoTarget} \cup OidArgs : traverse_git_repo_commit_tree_recorder(c)

Spec == Init /\ [][Next]_vars

\* The same with tags.
NextTag ==
    \/ Next
    \/ \E t \in TagNames, c \in {NoTarget} \cup OidArgs :
          /\ Len(tagobjs) < MaxTags \/ ~TargetOk(c)
          /\ upsert_tag_to_git_repo(t, c)

SpecTag == Init /\ [][NextTag]_vars

(***************************************************************************)
(* lookup_entry_from_git_repo_commit_tree_by_path: the commit is the given *)
(* one, or the commit HEAD resolves to; tree.get_path descends the tree    *)
(* one segment at a time, loading each intermediate tree from the object   *)
(* store.  It fails with "not found" when a segment is absent or is not a  *)
(* directory, and with an error when an intermediate tree object cannot be *)
(* loaded.  The function turns every failure of get_path into Ok(None).    *)
(***************************************************************************)
NotFound == [res |-> "notfound", kind |-> "none", oid |-> NoBlob]
OdbError == [res |-> "error", kind |-> "none", oid |-> NoBlob]

\* A variant that looks the first segment up and never descends.
get_path_shallow(t, p) ==
    IF Len(p) # 1 THEN NotFound
    ELSE IF p[1] \in DOMAIN t.files
    THEN [res |-> "ok", kind |-> "blob", oid |-> t.files[p[1]]]
    ELSE IF p[1] \in DOMAIN t.dirs
    THEN [res |-> "ok", kind |-> "tree", oid |-> t.dirs[p[1]]]
    ELSE NotFound

RECURSIVE get_path(_, _)
get_path(t, p) ==
    IF Len(p) = 1
    THEN IF p[1] \in DOMAIN t.files
         THEN [res |-> "ok", kind |-> "blob", oid |-> t.files[p[1]]]
         ELSE IF p[1] \in DOMAIN t.dirs
         THEN [res |-> "ok", kind |-> "tree", oid |-> t.dirs[p[1]]]
         ELSE NotFound
    ELSE IF p[1] \notin DOMAIN t.dirs THEN NotFound
    ELSE IF ~find_tree(t.dirs[p[1]]) THEN OdbError
    ELSE get_path(t.dirs[p[1]], Tail(p))

\* What the function returns: ok is Ok(..), entries holds the entry of Some.
LookupResult(c, target_path) ==
    IF ~TargetOk(c) \/ ~find_tree(CommitTree(TargetCommit(c)))
    THEN [ok |-> FALSE, entries |-> <<>>]
    ELSE LET got == get_path(CommitTree(TargetCommit(c)), target_path)
         IN  IF got.res = "ok"
             THEN [ok |-> TRUE, entries |-> <<TreeEntry(target_path, got.oid, got.kind)>>]
             ELSE [ok |-> TRUE, entries |-> <<>>]

lookup_entry_from_git_repo_commit_tree_by_path(c, target_path) ==
    /\ last = Idle
    /\ LET r == LookupResult(c, target_path)
       IN  last' = IF r.ok
                   THEN [Returned("lookup", TRUE, TargetCommit(c), r.entries)
                            EXCEPT !.paths = <<target_path>>]
                   ELSE Failed("lookup")
    /\ UNCHANGED <<odb, refs, HEAD, index, workdir, edits, config, bench>>

(***************************************************************************)
(* The read-only functions on one commit.  The repository opened holds one *)
(* commit on main, made from the nested files staged from the working      *)
(* tree (as the benchmarks make it, bench.rs: create_nested_test_files);   *)
(* its object store may have lost one tree object.                         *)
(***************************************************************************)
DeepPaths == {<<"a">>, <<"d", "b">>, <<"d", "e", "f", "g", "h", "j", "k">>}

LookupArgs ==
    DeepPaths \cup {<<"b">>, <<"d">>, <<"k">>, <<"a", "b">>, <<"d", "x">>,
                    <<"d", "e", "f", "g", "h", "j", "x">>}

InitTree ==
    \E wd \in [DeepPaths -> Contents \cup {NoBlob}] :
      LET staged == {p \in DeepPaths : wd[p] # NoBlob}
          tree == BuildTree([p \in staged |-> hash_blob(wd[p])])
      IN  \E lost \in {{}} \cup {{t} : t \in SubTrees(tree)} :
            /\ workdir = wd
            /\ index = [p \in DeepPaths |-> IF p \in staged THEN hash_blob(wd[p]) ELSE NoBlob]
            /\ blobs = {<<hash_blob(wd[p]), wd[p]>> : p \in staged}
            /\ trees = SubTrees(tree) \ lost
            /\ commits = <<[tree |-> tree, parents |-> <<>>]>>
            /\ tagobjs = <<>>
            /\ heads = [b \in Branches |-> IF b = "main" THEN 1 ELSE NoRef]
            /\ tags = [t \in TagNames |-> NoTag]
            /\ HEAD = Symbolic("main")
            /\ edits = 0
            /\ config = Configured
            /\ bench = NoBench
            /\ last = Idle

NextTree ==
    \/ Continue
    \/ \E c \in {NoTarget} \cup OidArgs, p \in LookupArgs :
          lookup_entry_from_git_repo_commit_tree_by_path(c, p)
    \/ \E c \in {NoTarget} \cup OidArgs : traverse_git_repo_commit_tree_recorder(c)

SpecTree == InitTree /\ [][NextTree]_vars

(***************************************************************************)
(* config_git_repo_kv_str and config_git_repo_user.  get_string fails on a *)
(* key that is not set; the key is written when it is not set or holds     *)
(* another value, and the function returns whether it was to be written.   *)
(* config_git_repo_user joins the two calls with ||, which does not        *)
(* evaluate its right operand when the left one is true.                   *)
(***************************************************************************)
get_string(cfg, name) == [ok |-> cfg.vals[name] # NoValue, value |-> cfg.vals[name]]

\* A variant that reports success and stores nothing.
set_str_drops(cfg, name, value) == [ok |-> TRUE, cfg |-> cfg]

set_str(cfg, name, value) ==
    IF cfg.locked THEN [ok |-> FALSE, cfg |-> cfg]
    ELSE [ok |-> TRUE, cfg |-> [cfg EXCEPT !.vals[name] = value]]

\* What the call returns and leaves: ok is Ok(..), ret the boolean of Ok,
\* wrote whether set_str was called, cfg the configuration afterwards.
config_git_repo_kv_str(cfg, name, value) ==
    LET old == get_string(cfg, name)
        need_update == IF old.ok THEN old.value # value ELSE TRUE
        set == set_str(cfg, name, value)
    IN  IF need_update
        THEN [ok |-> set.ok, ret |-> need_update, wrote |-> TRUE, cfg |-> set.cfg]
        ELSE [ok |-> TRUE, ret |-> need_update, wrote |-> FALSE, cfg |-> cfg]

\* The keys the call wrote, in order, and what it leaves.
UserResult(cfg, name, email) ==
    LET n == config_git_repo_kv_str(cfg, "user.name", name)
        e == config_git_repo_kv_str(n.cfg, "user.email", email)
        wn == IF n.wrote /\ n.ok THEN <<"user.name">> ELSE <<>>
        we == IF e.wrote /\ e.ok THEN <<"user.email">> ELSE <<>>
    IN  IF ~n.ok THEN [ok |-> FALSE, cfg |-> n.cfg, wrote |-> wn]
        ELSE IF n.ret THEN [ok |-> TRUE, cfg |-> n.cfg, wrote |-> wn]
        ELSE IF ~e.ok THEN [ok |-> FALSE, cfg |-> e.cfg, wrote |-> wn \o we]
        ELSE [ok |-> TRUE, cfg |-> e.cfg, wrote |-> wn \o we]

config_git_repo_user(name, email) ==
    /\ last = Idle
    /\ LET r == UserResult(config, name, email)
       IN  /\ config' = r.cfg
           /\ last' = [Returned("config", r.ok, NoRef, r.wrote)
                          EXCEPT !.name = name, !.paths = <<email>>]
    /\ UNCHANGED <<odb, refs, HEAD, index, workdir, edits, bench>>

\* repo.signature(): the user of the configuration; fails unless both keys
\* are set.
signature(cfg) ==
    [ok    |-> cfg.vals["user.name"] # NoValue /\ cfg.vals["user.email"] # NoValue,
     name  |-> cfg.vals["user.name"],
     email |-> cfg.vals["user.email"]]

\* A repository as it is opened: either key may be set already, to any value.
ConfigStates ==
    {[vals |-> v, locked |-> l] :
        v \in {f \in [ConfigKeys -> UserNames \cup UserEmails \cup {NoValue}] :
                  /\ f["user.name"] \in UserNames \cup {NoValue}
                  /\ f["user.email"] \in UserEmails \cup {NoValue}},
        l \in BOOLEAN}

InitConfig ==
    /\ blobs = {}
    /\ trees = {}
    /\ commits = <<>>
    /\ tagobjs = <<>>
    /\ heads = [b \in Branches |-> NoRef]
    /\ tags = [t \in TagNames |-> NoTag]
    /\ HEAD = Symbolic("main")
    /\ index = [p \in Paths |-> NoBlob]
    /\ workdir = [p \in Paths |-> NoBlob]
    /\ edits = 0
    /\ config \in ConfigStates
    /\ bench = NoBench
    /\ last = Idle

NextConfig ==
    \/ Continue
    \/ \E n \in UserNames, e \in UserEmails : config_git_repo_user(n, e)

SpecConfig == InitConfig /\ [][NextConfig]_vars

(***************************************************************************)
(* switch_git_repo_branch(name, update_workdir = true) statement by        *)
(* statement: the lookup of the branch, repo.set_head, then the checkout,  *)
(* which decides what to do with every path and then removes and writes    *)
(* the files one at a time, removals first.  Removing or writing a file    *)
(* may fail (a permission error); the checkout then stops, and `?` returns *)
(* its error from the function.  `last` holds the position inside the call *)
(* and, in acts, what the checkout has still to do ("done" once done).     *)
(***************************************************************************)
\* A variant that leaves HEAD where it is.
set_head_deferred(name) == HEAD

\* repo.set_head("refs/heads/<name>"): what HEAD becomes.
set_head(name) == Symbolic(name)

Pending(acts) == {p \in Paths : acts[p] \in Removals \cup {"update"}}

switch_find_reference(name) ==
    /\ last = Idle
    /\ last' = IF find_reference(name)
               THEN Synced("switch@set_head", TRUE, heads[name], name, NoActs)
               ELSE Failed("switch")
    /\ UNCHANGED <<odb, refs, HEAD, index, workdir, edits, config, bench>>

switch_set_head ==
    /\ last.op = "switch@set_head"
    /\ HEAD' = set_head(last.name)
    /\ last' = Synced("switch@checkout", TRUE, last.oid, last.name,
                      checkout_tree(TreeMap(CommitTree(last.oid)),
                                    HeadTreeMap(Symbolic(last.name), heads),
                                    index, workdir, SwitchOpts).acts)
    /\ UNCHANGED <<odb, refs, index, workdir, edits, config, bench>>

checkout_file(p) ==
    /\ last.op = "switch@checkout"
    /\ p \in Pending(last.acts)
    /\ last.acts[p] = "update" => \A q \in Pending(last.acts) : last.acts[q] = "update"
    /\ IF last.acts[p] = "update"
       THEN /\ workdir' = [workdir EXCEPT
                               ![p] = blob_content(TreeMap(CommitTree(last.oid))[p])]
            /\ index' = [index EXCEPT ![p] = TreeMap(CommitTree(last.oid))[p]]
       ELSE /\ workdir' = [workdir EXCEPT ![p] = NoBlob]
            /\ index' = [index EXCEPT ![p] = NoBlob]
    /\ last' = [last EXCEPT !.acts[p] = "done"]
    /\ UNCHANGED <<odb, refs, HEAD, edits, config, bench>>

checkout_fails(p) ==
    /\ last.op = "switch@checkout"
    /\ p \in Pending(last.acts)
    /\ last.acts[p] = "update" => \A q \in Pending(last.acts) : last.acts[q] = "update"
    /\ last' = [last EXCEPT !.op = "switch", !.ok = FALSE]
    /\ UNCHANGED <<odb, refs, HEAD, index, workdir, edits, config, bench>>

switch_return ==
    /\ last.op = "switch@checkout"
    /\ Pending(last.acts) = {}
    /\ last' = [last EXCEPT !.op = "switch"]
    /\ UNCHANGED <<odb, refs, HEAD, index, workdir, edits, config, bench>>

NextSwitch ==
    \/ Continue
    \/ \E p \in Paths : \E c \in FileContents(p) : WriteFile(p, c)
    \/ \E p \in Paths : RemoveFile(p)
    \/ \E ps \in AddInputs : add_files_to_git_repo_index(ps)
    \/ commit_index_to_git_repo
    \/ \E b \in Branches, c \in {NoTarget} \cup OidArgs : upsert_branch_to_git_repo(b, c)
    \/ \E b \in Branches : switch_find_reference(b)
    \/ switch_set_head
    \/ \E p \in Paths : checkout_file(p)
    \/ \E p \in Paths : checkout_fails(p)
    \/ switch_return

SpecSwitch == Init /\ [][NextSwitch]_vars

(***************************************************************************)
(* Staging with paths that cannot be added: the caller may list a          *)
(* directory beside the files.                                             *)
(***************************************************************************)
NextAdd ==
    \/ Continue
    \/ \E p \in Paths : \E c \in FileContents(p) : WriteFile(p, c)
    \/ \E p \in Paths : RemoveFile(p)
    \/ \E ps \in AddInputsAny : add_files_to_git_repo_index(ps)
    \/ commit_index_to_git_repo

SpecAdd == Init /\ [][NextAdd]_vars

(***************************************************************************)
(* The end of main (main.rs:565-579), run from a state on branch main with *)
(* two commits: reset_git_repo_head(commit 1), clean_git_repo_index,       *)
(* commit_index_to_git_repo (commit 3), restore_git_repo_head_to_workdir.  *)
(* Each call is given what the call before it left.                        *)
(***************************************************************************)
\* What commit_index_to_git_repo leaves, from the references, the commits
\* and the Index it starts with.
CommitResult(H, hs, cs, idx) ==
    LET new == Len(cs) + 1
        resolves == H.kind = "direct" \/ hs[H.branch] # NoRef
        parent == IF H.kind = "direct" THEN H.oid ELSE hs[H.branch]
    IN  [oid     |-> new,
         commits |-> Append(cs, [tree    |-> write_tree(idx),
                                 parents |-> IF resolves THEN <<parent>> ELSE <<>>]),
         HEAD    |-> IF H.kind = "symbolic" THEN H ELSE Direct(new),
         heads   |-> IF H.kind = "symbolic" THEN [hs EXCEPT ![H.branch] = new] ELSE hs]

MainTail ==
    LET r == ResetResult(HEAD, heads, index, workdir, 1)
        c == CommitResult(r.HEAD, r.heads, commits, index_clear)
        tree == c.commits[c.oid].tree
        co == checkout_tree(TreeMap(tree), TreeMap(tree), index_clear, r.workdir,
                            RestoreOpts)
    IN  [ok |-> r.ok /\ co.ok, HEAD |-> c.HEAD, heads |-> c.heads, oid |-> c.oid,
         commit |-> c.commits[c.oid], index |-> co.idx, workdir |-> co.wd]

(***************************************************************************)
(* The functions that take an optional commit (upsert_branch, upsert_tag,  *)
(* traverse, lookup), on a repository whose HEAD stays attached to main:   *)
(* before the first commit HEAD does not resolve.  A tag may be made       *)
(* MaxRetags times.                                                        *)
(***************************************************************************)
NextRefs ==
    \/ Continue
    \/ \E p \in Paths : \E c \in FileContents(p) : WriteFile(p, c)
    \/ \E ps \in AddInputs : add_files_to_git_repo_index(ps)
    \/ commit_index_to_git_repo
    \/ \E b \in Branches, c \in {NoTarget} \cup OidArgs : upsert_branch_to_git_repo(b, c)
    \/ \E t \in TagNames, c \in {NoTarget} \cup OidArgs :
          /\ Len(tagobjs) < MaxRetags \/ ~TargetOk(c)
          /\ upsert_tag_to_git_repo(t, c)
    \/ \E c \in {NoTarget} \cup OidArgs : traverse_git_repo_commit_tree_recorder(c)
    \/ \E c \in {NoTarget} \cup OidArgs, p \in Paths \cup DirPaths :
          lookup_entry_from_git_repo_commit_tree_by_path(c, p)

SpecRefs == Init /\ [][NextRefs]_vars

(***************************************************************************)
(* open_or_init_git_repo(dir).  The directory may hold no .git entry       *)
(* (absent, or a plain directory with files), a .git entry that is not a   *)
(* repository, or a repository.  With a .git entry Repository::open is     *)
(* called and nothing is written; without one the directory is removed,    *)
(* created again and a repository with HEAD on the unborn main is made.    *)
(* HEAD.kind "none" stands for a missing .git and "invalid" for a .git     *)
(* that Repository::open rejects.                                          *)
(***************************************************************************)
NoGitDir == [kind |-> "none", branch |-> "", oid |-> NoRef]
InvalidGitDir == [kind |-> "invalid", branch |-> "", oid |-> NoRef]

git_dir_exists == HEAD.kind # "none"

Opened == HEAD.kind \in {"symbolic", "direct"}

\* remove_dir_all, create_dir_all and Repository::init_opts(initial_head main).
init_opts ==
    /\ workdir' = [p \in Paths |-> NoBlob]
    /\ blobs' = {}
    /\ trees' = {}
    /\ commits' = <<>>
    /\ tagobjs' = <<>>
    /\ heads' = [b \in Branches |-> NoRef]
    /\ tags' = [t \in TagNames |-> NoTag]
    /\ HEAD' = Symbolic("main")
    /\ index' = [p \in Paths |-> NoBlob]
    /\ last' = Last("open", TRUE, NoRef, "init", <<>>)

\* A variant that does not look for .git.
open_or_init_always_inits ==
    /\ last = Idle
    /\ init_opts
    /\ UNCHANGED <<edits, config, bench>>

open_or_init_git_repo ==
    /\ last = Idle
    /\ IF git_dir_exists
       THEN /\ last' = IF Opened THEN Last("open", TRUE, NoRef, "open", <<>>)
                       ELSE Failed("open")
            /\ UNCHANGED <<odb, refs, HEAD, index, workdir>>
       ELSE init_opts
    /\ UNCHANGED <<edits, config, bench>>

InitOpen ==
    /\ HEAD \in {NoGitDir, InvalidGitDir}
    /\ workdir \in {[p \in Paths |-> NoBlob],
                    [p \in Paths |-> IF p = <<"a">> THEN 1 ELSE NoBlob]}
    /\ blobs = {}
    /\ trees = {}
    /\ commits = <<>>
    /\ tagobjs = <<>>
    /\ heads = [b \in Branches |-> NoRef]
    /\ tags = [t \in TagNames |-> NoTag]
    /\ index = [p \in Paths |-> NoBlob]
    /\ edits = 0
    /\ config = Configured
    /\ bench = NoBench
    /\ last = Idle

NextOpen ==
    \/ Continue
    \/ open_or_init_git_repo
    \/ \E p \in Paths : \E c \in FileContents(p) : WriteFile(p, c)
    \/ \E ps \in AddInputs : Opened /\ add_files_to_git_repo_index(ps)
    \/ Opened /\ commit_index_to_git_repo

SpecOpen == InitOpen /\ [][NextOpen]_vars

(***************************************************************************)
(* BenchmarkResult::new and the loop of                                    *)
(* benchmark_open_or_init_git_repo_new_scenario.  Durations are whole      *)
(* nanoseconds.  The percentile index is (total_runs as f64 * 0.NN) as     *)
(* usize: the product of the count with the f64 nearest to NN/100 rounds   *)
(* to the exact NN * total_runs / 100 whenever that is whole, so the cast  *)
(* gives the floor of the exact quotient.  The cast of the average to u64  *)
(* keeps its value for elapsed times, which are below 2^64 nanoseconds.    *)
(***************************************************************************)
RECURSIVE insert(_, _)
insert(s, d) ==
    IF s = <<>> THEN <<d>>
    ELSE IF d < Head(s) THEN <<d>> \o s
    ELSE <<Head(s)>> \o insert(Tail(s), d)

\* A variant that leaves the vector as it is.
sort_keeps(s) == s

RECURSIVE sort(_)
sort(s) == IF s = <<>> THEN <<>> ELSE insert(sort(Tail(s)), Head(s))

RECURSIVE sum(_)
sum(s) == IF s = <<>> THEN 0 ELSE Head(s) + sum(Tail(s))

pct_idx(total_runs, pct) == (total_runs * pct) \div 100

usize_min(a, b) == IF a <= b THEN a ELSE b

\* BenchmarkResult::new(durations).
BenchmarkResult_new(durations) ==
    LET total_runs == Len(durations)
        successful_runs == total_runs
        sorted == sort(durations)
        total_nanos == sum(sorted)
        at(idx) == sorted[usize_min(idx, total_runs - 1) + 1]
    IN  IF durations = <<>>
        THEN [total_runs |-> total_runs, successful_runs |-> successful_runs,
              failed_runs |-> 0, durations |-> durations,
              avg_duration |-> 0, pct50_duration |-> 0, pct90_duration |-> 0,
              pct95_duration |-> 0]
        ELSE [total_runs |-> total_runs, successful_runs |-> successful_runs,
              failed_runs |-> 0, durations |-> sorted,
              avg_duration |-> total_nanos \div total_runs,
              pct50_duration |-> at(pct_idx(total_runs, 50)),
              pct90_duration |-> at(pct_idx(total_runs, 90)),
              pct95_duration |-> at(pct_idx(total_runs, 95))]

\* start.elapsed() of one iteration, and the numbers of iterations asked for.
Elapsed == {1, 2, 5}
Quickest == CHOOSE d \in Elapsed : \A e \in Elapsed : d <= e
IterationCounts == {0, 1, 3, MaxIterations}

\* open_or_init_git_repo returned Ok: the duration is pushed.
bench_iteration_ok(d) ==
    /\ ~bench.done
    /\ bench.i < bench.iterations
    /\ d # Quickest => bench.slow < MaxSlow
    /\ bench' = [bench EXCEPT !.i = @ + 1,
                              !.slow = IF d = Quickest THEN @ ELSE @ + 1,
                              !.durations = Append(@, d)]
    /\ UNCHANGED <<odb, refs, HEAD, index, workdir, edits, config, last>>

\* open_or_init_git_repo returned Err: the error is printed.
bench_iteration_err ==
    /\ ~bench.done
    /\ bench.i < bench.iterations
    /\ bench.failed < MaxFailed
    /\ bench' = [bench EXCEPT !.i = @ + 1, !.failed = @ + 1]
    /\ UNCHANGED <<odb, refs, HEAD, index, workdir, edits, config, last>>

\* After the loop: BenchmarkResult::new(durations).
bench_return ==
    /\ ~bench.done
    /\ bench.i = bench.iterations
    /\ bench' = [bench EXCEPT !.done = TRUE,
                              !.result = BenchmarkResult_new(bench.durations)]
    /\ UNCHANGED <<odb, refs, HEAD, index, workdir, edits, config, last>>

InitBench ==
    /\ blobs = {}
    /\ trees = {}
    /\ commits = <<>>
    /\ tagobjs = <<>>
    /\ heads = [b \in Branches |-> NoRef]
    /\ tags = [t \in TagNames |-> NoTag]
    /\ HEAD = Symbolic("main")
    /\ index = [p \in Paths |-> NoBlob]
    /\ workdir = [p \in Paths |-> NoBlob]
    /\ edits = 0
    /\ config = Configured
    /\ last = Idle
    /\ \E n \in IterationCounts : bench = [NoBench EXCEPT !.iterations = n]

NextBench ==
    \/ \E d \in Elapsed : bench_iteration_ok(d)
    \/ bench_iteration_err
    \/ bench_return

SpecBench == InitBench /\ [][NextBench]_vars

(***************************************************************************)
(* Properties of the operations.                                           *)
(***************************************************************************)
Target(c) == TreeMap(CommitTree(c))

\* The files of the tree of commit c: path -> content, NoBlob when not in it.
TreeFiles(c) ==
    [p \in Paths |-> IF Target(c)[p] = NoBlob THEN NoBlob ELSE blob_content(Target(c)[p])]

SyncOps == {"switch", "reset", "restore"}

\* C1, as stated: after a successful switch_git_repo_branch(B, true) HEAD is
\* attached to refs/heads/B and the working tree holds exactly the files of
\* the tree of B's commit, so a file only another commit tracks is gone after
\* switching away and back after switching back.
C1_SwitchExact ==
    [][\A b \in Branches :
          (switch_git_repo_branch(b, TRUE) /\ last'.ok)
              => /\ HEAD' = Symbolic(b)
                 /\ workdir' = TreeFiles(heads[b])]_vars

\* C1, amended: after a successful switch_git_repo_branch(B, true) HEAD is
\* attached to refs/heads/B, every path of the tree of B's commit is on disk
\* with the committed content, and the only other files on disk are ignored
\* files that were not in the Index, which the switch left as they were.
C1_SwitchSyncs ==
    [][\A b \in Branches :
          (switch_git_repo_branch(b, TRUE) /\ last'.ok)
              => /\ HEAD' = Symbolic(b)
                 /\ \A p \in Paths :
                       IF Target(heads[b])[p] # NoBlob
                       THEN workdir'[p] = TreeFiles(heads[b])[p]
                       ELSE workdir'[p] # NoBlob
                              => /\ p \in IgnoredPaths
                                 /\ index[p] = NoBlob
                                 /\ workdir'[p] = workdir[p]]_vars

\* A switch that deleted d/b, which the tree switched to does not hold, and
\* kept the ignored file i, which that tree does not hold either.
C1_Switched ==
    /\ last.op = "switch" /\ last.ok
    /\ HEAD = Symbolic(last.name)
    /\ last.acts[<<"d", "b">>] = "remove_tracked"
    /\ workdir[<<"d", "b">>] = NoBlob
    /\ Target(last.oid)[<<"i">>] = NoBlob
    /\ workdir[<<"i">>] # NoBlob

\* C2: after a successful reset_git_repo_head(C) HEAD resolves to C, the
\* Index is the flattened tree of C with no other entry, and every path of
\* the tree of C is on disk with the content of its blob.
C2_ResetPostcondition ==
    (last.op = "reset" /\ last.ok)
        => /\ head_ok
           /\ HeadCommit = last.oid
           /\ index = Target(last.oid)
           /\ \A p \in TreePaths(CommitTree(last.oid)) :
                 workdir[p] = blob_content(TreeBlob(CommitTree(last.oid), p))

\* A reset to an older commit that wrote a file of its tree.
C2_ResetDone ==
    /\ last.op = "reset" /\ last.ok
    /\ last.oid < Len(commits)
    /\ \E p \in Paths : last.acts[p] = "update"

\* C3, as stated: a reset while HEAD is attached to a branch moves that
\* branch to the target and leaves HEAD attached to it; a reset while HEAD is
\* detached leaves it detached, at the target.
C3_ResetKeepsAttachment ==
    [][\A c \in OidArgs :
          (reset_git_repo_head(c) /\ last'.ok)
              => IF Attached
                 THEN HEAD' = HEAD /\ heads'[HEAD.branch] = c
                 ELSE HEAD' = Direct(c)]_vars

\* C4: reset_git_repo_head(C) applied to the state a successful
\* reset_git_repo_head(C) left succeeds and changes neither HEAD (target and
\* attachment), nor a branch, nor the Index, nor the working tree.
C4_ResetIdempotent ==
    [][\A c \in OidArgs :
          (reset_git_repo_head(c) /\ last'.ok)
              => LET again == ResetResult(HEAD', heads', index', workdir', c)
                 IN  /\ again.ok
                     /\ again.HEAD = HEAD'
                     /\ again.heads = heads'
                     /\ again.index = index'
                     /\ again.workdir = workdir']_vars

\* A reset that moved HEAD off a later commit and deleted a file.
C4_ResetChanged ==
    /\ last.op = "reset" /\ last.ok
    /\ HEAD = Direct(last.oid)
    /\ \E b \in Branches : heads[b] # NoRef /\ heads[b] # last.oid
    /\ \E p \in Paths : last.acts[p] \in Removals

\* C5, as stated: restore_git_repo_head_to_workdir changes neither HEAD, nor
\* a branch or tag reference, nor the object store: nothing but the content
\* of the working tree differs after the call.
C5_RestoreOnlyWorkdir ==
    [][(restore_git_repo_head_to_workdir /\ last'.ok)
          => UNCHANGED <<HEAD, heads, tags, blobs, trees, commits, tagobjs, index>>]_vars

\* C6: after a successful restore_git_repo_head_to_workdir every path of the
\* tree of the commit HEAD resolves to is on disk with the committed content,
\* whatever was done to the file before.
C6_RestoreRewrites ==
    (last.op = "restore" /\ last.ok)
        => /\ head_ok
           /\ \A p \in TreePaths(CommitTree(HeadCommit)) :
                 workdir[p] = blob_content(TreeBlob(CommitTree(HeadCommit), p))

\* A restore that wrote a committed file that was modified or deleted.
C6_Restored ==
    /\ last.op = "restore" /\ last.ok
    /\ \E p \in Paths : last.acts[p] = "update" /\ workdir[p] = TreeFiles(HeadCommit)[p]

C8_AddPostcondition ==
    [][\A ps \in AddInputs :
          add_files_to_git_repo_index(ps)
              => /\ last'.ok
                 /\ \A k \in 1..Len(ps) :
                       IF workdir[ps[k]] # NoBlob
                       THEN /\ index'[ps[k]] = hash_blob(workdir[ps[k]])
                            /\ <<index'[ps[k]], workdir[ps[k]]>> \in blobs'
                       ELSE index'[ps[k]] = NoBlob]_vars

\* An add of two paths: a file on disk, and a committed file no longer on disk.
C8_Added ==
    /\ last.op = "add" /\ last.ok /\ head_ok
    /\ \E j, k \in 1..Len(last.paths) :
          /\ workdir[last.paths[j]] # NoBlob
          /\ blob_content(index[last.paths[j]]) = workdir[last.paths[j]]
          /\ workdir[last.paths[k]] = NoBlob
          /\ Target(HeadCommit)[last.paths[k]] # NoBlob
          /\ index[last.paths[k]] = NoBlob

\* The (relative_path, content) pairs of the blob entries of a traversal.
read_git_repo_blob_content(oid) == blob_content(oid)

BlobPairs(es) ==
    {<<es[k].relative_path, read_git_repo_blob_content(es[k].oid)>> :
        k \in {j \in 1..Len(es) : es[j].kind = "blob"}}

\* C9, as stated: traversing the commit made from the staged files yields
\* blob entries whose (relative_path, content) pairs are exactly the staged
\* (path, content) pairs, nested directories included.
C9_TraverseRoundTrip ==
    [][\A c \in {NoTarget} \cup OidArgs :
          (traverse_git_repo_commit_tree_recorder(c) /\ last'.ok
             /\ CommitTree(last'.oid) = write_tree(index))
              => BlobPairs(last'.entries)
                    = {<<p, blob_content(index[p])>> : p \in Staged(index)}]_vars

\* C10: the commit commit_index_to_git_repo makes has no parent exactly when
\* it is the first commit of the repository, made while HEAD is unborn, and
\* otherwise has one parent, the commit HEAD resolved to before the call.
C10_CommitParents ==
    [][commit_index_to_git_repo
          => LET new == commits'[Len(commits')]
             IN  IF commits = <<>>
                 THEN ~head_ok /\ new.parents = <<>>
                 ELSE head_ok /\ new.parents = <<HeadCommit>>]_vars

\* A second commit, made on top of the first.
C10_Committed ==
    /\ last.op = "commit" /\ last.ok
    /\ last.oid = 2
    /\ commits[1].parents = <<>>
    /\ commits[2].parents = <<1>>

\* C11: a commit_index_to_git_repo made while HEAD is attached to branch B
\* makes B point at the new commit, leaves HEAD attached to B and leaves
\* every other branch and every tag reference as it was.
C11_CommitMovesBranch ==
    [][(commit_index_to_git_repo /\ Attached)
          => /\ heads'[HEAD.branch] = Len(commits')
             /\ HEAD' = HEAD
             /\ \A b \in Branches \ {HEAD.branch} : heads'[b] = heads[b]
             /\ tags' = tags]_vars

\* A commit on a branch while another branch and a tag point at an older commit.
C11_CommittedOnBranch ==
    /\ last.op = "commit" /\ last.ok
    /\ Attached /\ heads[HEAD.branch] = last.oid
    /\ \E b \in Branches : heads[b] # NoRef /\ heads[b] # last.oid
    /\ \E t \in TagNames : tags[t] # NoTag

\* C12: clean_git_repo_index leaves the Index with no entry and changes
\* neither HEAD, nor a branch or tag reference, nor the working tree; a commit
\* of that Index, made while HEAD resolves to a commit, has the empty tree and
\* one parent, the commit HEAD resolved to before it.
C12_CleanThenCommit ==
    [][/\ clean_git_repo_index
          => /\ Staged(index') = {}
             /\ UNCHANGED <<HEAD, heads, tags, workdir>>
       /\ (commit_index_to_git_repo /\ Staged(index) = {} /\ head_ok)
          => /\ commits'[Len(commits')].tree = EmptyTree
             /\ TreePaths(commits'[Len(commits')].tree) = {}
             /\ commits'[Len(commits')].parents = <<HeadCommit>>]_vars

\* A commit of the cleared Index on top of a commit that holds files, with
\* those files still on disk.
C12_EmptyCommit ==
    /\ last.op = "commit" /\ last.ok
    /\ last.oid = 2
    /\ Staged(index) = {}
    /\ CommitTree(2) = EmptyTree
    /\ commits[2].parents = <<1>>
    /\ TreePaths(CommitTree(1)) # {}
    /\ \E p \in TreePaths(CommitTree(1)) : workdir[p] # NoBlob

\* C13, as stated: upsert_branch_to_git_repo(name, target) with an existing
\* target commit returns Ok for every branch name, the branch HEAD is attached
\* to included, and refs/heads/name points at the target afterwards.
C13_UpsertBranchAlways ==
    [][\A b \in Branches, c \in OidArgs :
          (upsert_branch_to_git_repo(b, c) /\ find_commit(c))
              => last'.ok /\ heads'[b] = c]_vars

\* C14: a successful upsert_tag_to_git_repo stores one new Tag object whose
\* target is the chosen commit, makes refs/tags/<name> hold the identity of
\* that Tag object and not the commit's, returns the reference of that name,
\* and the reference peels to the chosen commit.
C14_TagAnnotated ==
    [][\A t \in TagNames, c \in {NoTarget} \cup OidArgs :
          (upsert_tag_to_git_repo(t, c) /\ last'.ok)
              => /\ tagobjs' = Append(tagobjs, [target |-> TargetCommit(c)])
                 /\ tags'[t] = TagId(Len(tagobjs'))
                 /\ tags'[t] # CommitId(TargetCommit(c))
                 /\ last'.name = t
                 /\ peel(tags[t])' = TargetCommit(c)]_vars

\* A tag made on the first commit while HEAD is at the second.
C14_Tagged ==
    /\ last.op = "tag" /\ last.ok
    /\ Len(commits) = 2 /\ head_ok /\ HeadCommit = 2
    /\ last.oid = 1
    /\ tags[last.name] = TagId(Len(tagobjs))
    /\ peel(tags[last.name]) = 1

\* Whether p is a proper prefix of q, and whether the tree has an entry at p.
IsPrefix(p, q) == Len(p) < Len(q) /\ SubSeq(q, 1, Len(p)) = p

HasEntry(t, p) == p \in TreePaths(t) \/ \E q \in TreePaths(t) : IsPrefix(p, q)

\* C15: on a commit whose objects are all in the store, the lookup of the
\* exact path of a file, however deep, returns Some entry of kind blob whose
\* oid is the blob staged for that path, and read_git_repo_blob_content of it
\* is the file's content as staged; the lookup of a path the tree has no
\* entry for returns Ok(None), not an error.
C15_DeepLookup ==
    [][\A c \in {NoTarget} \cup OidArgs, p \in LookupArgs :
          (/\ lookup_entry_from_git_repo_commit_tree_by_path(c, p)
           /\ TargetOk(c)
           /\ walk_ok(CommitTree(TargetCommit(c))))
              => /\ last'.ok
                 /\ p \in TreePaths(CommitTree(TargetCommit(c)))
                       => /\ Len(last'.entries) = 1
                          /\ last'.entries[1].kind = "blob"
                          /\ last'.entries[1].oid = index[p]
                          /\ last'.entries[1].relative_path = p
                          /\ read_git_repo_blob_content(last'.entries[1].oid) = workdir[p]
                 /\ ~HasEntry(CommitTree(TargetCommit(c)), p)
                       => last'.entries = <<>>]_vars

\* A lookup of the file six directories deep, found, while its sibling is not
\* in the tree.
C15_FoundDeep ==
    /\ last.op = "lookup" /\ last.ok
    /\ last.paths = <<(<<"d", "e", "f", "g", "h", "j", "k">>)>>
    /\ Len(last.entries) = 1
    /\ last.entries[1].kind = "blob"
    /\ read_git_repo_blob_content(last.entries[1].oid) = workdir[last.paths[1]]
    /\ LookupResult(last.oid, <<"d", "e", "f", "g", "h", "j", "x">>)
          = [ok |-> TRUE, entries |-> <<>>]

\* C16, as stated: the lookup returns Ok(None) only when the tree has no
\* entry at the path; when an intermediate tree object cannot be loaded the
\* caller gets an error.
C16_NoneOnlyWhenAbsent ==
    [][\A c \in {NoTarget} \cup OidArgs, p \in LookupArgs :
          (/\ lookup_entry_from_git_repo_commit_tree_by_path(c, p)
           /\ last'.ok
           /\ last'.entries = <<>>)
              => ~HasEntry(CommitTree(TargetCommit(c)), p)]_vars

\* C17, as stated: the traversal lists a directory before the entries
\* beneath it, and every entry carries its path from the root of the tree:
\* the lookup of that path in the same commit returns an entry with the same
\* oid and kind.
C17_TraverseLookup ==
    [][\A c \in {NoTarget} \cup OidArgs :
          (traverse_git_repo_commit_tree_recorder(c) /\ last'.ok)
              => \A k \in 1..Len(last'.entries) :
                    LET e == last'.entries[k]
                        r == LookupResult(c, e.relative_path)
                    IN  /\ r.ok
                        /\ Len(r.entries) = 1
                        /\ r.entries[1].kind = e.kind
                        /\ r.entries[1].oid = e.oid
                        /\ \A j \in 1..Len(last'.entries) :
                              IsPrefix(last'.entries[j].relative_path, e.relative_path)
                                  => j < k]_vars

\* C18: in every reachable state every reference under refs/heads points at
\* an identity that is in the object store and is a commit.
C18_BranchesAtCommits ==
    \A b \in Branches : heads[b] # NoRef => find_commit(heads[b])

\* A branch just set to the first commit while main is at the second and a
\* tag exists.
C18_BranchSet ==
    /\ last.op = "branch" /\ last.ok
    /\ last.oid = 1 /\ heads[last.name] = 1
    /\ \E b \in Branches : heads[b] = 2
    /\ \E t \in TagNames : tags[t] # NoTag

\* C19: no step removes or changes an object of the store: every blob, tree,
\* commit and Tag object stays under its identity with the same content.
C19_StoreOnlyGrows ==
    [][/\ blobs \subseteq blobs'
       /\ \A b \in blobs : \A n \in blobs' : n[1] = b[1] => n[2] = b[2]
       /\ trees \subseteq trees'
       /\ Len(commits) <= Len(commits')
       /\ \A c \in 1..Len(commits) : commits'[c] = commits[c]
       /\ Len(tagobjs) <= Len(tagobjs')
       /\ \A k \in 1..Len(tagobjs) : tagobjs'[k] = tagobjs[k]]_vars

\* The second commit traversed after a reset to the first, with the blobs of
\* both commits still in the store.
C19_OldCommitTraversed ==
    /\ last.op = "traverse" /\ last.ok
    /\ last.oid = 2 /\ last.entries # <<>>
    /\ HEAD = Direct(1)
    /\ CommitTree(1) # CommitTree(2)
    /\ \A k \in 1..Len(last.entries) :
          last.entries[k].kind = "blob" => find_blob(last.entries[k].oid)

\* C20: after add_files_to_git_repo_index two listed files on disk have the
\* same blob identity in the Index exactly when their contents are equal, the
\* store holds one blob per content and one content per identity, and a
\* listed file whose Index entry already was the blob of its content keeps
\* that identity.
C20_ContentAddressed ==
    [][\A ps \in AddInputs :
          add_files_to_git_repo_index(ps)
              => /\ \A j, k \in 1..Len(ps) :
                       (workdir[ps[j]] # NoBlob /\ workdir[ps[k]] # NoBlob)
                           => ((workdir[ps[j]] = workdir[ps[k]])
                                  <=> (index'[ps[j]] = index'[ps[k]]))
                 /\ \A b, n \in blobs' : (b[1] = n[1]) <=> (b[2] = n[2])
                 /\ \A k \in 1..Len(ps) :
                       (/\ workdir[ps[k]] # NoBlob
                        /\ index[ps[k]] # NoBlob
                        /\ blob_content(index[ps[k]]) = workdir[ps[k]])
                           => index'[ps[k]] = index[ps[k]]]_vars

\* Two files of the same content staged in one call: one identity, one blob.
C20_SameBytesStaged ==
    /\ last.op = "add" /\ last.ok
    /\ Len(last.paths) = 2 /\ last.paths[1] # last.paths[2]
    /\ workdir[last.paths[1]] # NoBlob
    /\ workdir[last.paths[1]] = workdir[last.paths[2]]
    /\ index[last.paths[1]] = index[last.paths[2]]
    /\ Cardinality(blobs) = 1

\* C21: the tree a commit is given depends only on the path -> blob mapping of
\* the Index: a commit of an Index that holds what the tree of an earlier
\* commit holds has that same tree, and staging two files in the other order
\* leaves an Index that writes the same tree.
C21_TreeDeterminism ==
    [][/\ commit_index_to_git_repo
          => \A c \in 1..Len(commits) :
                index = Target(c) => commits'[Len(commits')].tree = CommitTree(c)
       /\ \A ps \in AddInputs :
             (add_files_to_git_repo_index(ps) /\ Len(ps) = 2)
                 => write_tree(AddLoop([idx |-> index, blobs |-> blobs, ok |-> TRUE],
                                       <<ps[2], ps[1]>>).idx)
                        = write_tree(index')]_vars

\* The same Index committed twice, with a file in a directory: one tree.
C21_SameTreeTwice ==
    /\ last.op = "commit" /\ last.ok
    /\ last.oid = 2
    /\ CommitTree(1) = CommitTree(2)
    /\ <<"d", "b">> \in TreePaths(CommitTree(2))
    /\ Cardinality(TreePaths(CommitTree(2))) = 2

C23_RestoreKeepsUntracked ==
    [][(restore_git_repo_head_to_workdir /\ last'.ok)
          => \A p \in Paths :
                (/\ workdir[p] # NoBlob
                 /\ index[p] = NoBlob
                 /\ Target(HeadCommit)[p] = NoBlob)
                    => workdir'[p] = workdir[p]]_vars

\* C24, as stated: after config_git_repo_user(name, email) returns Ok the
\* configuration holds user.name = name and user.email = email, whatever it
\* held before, and repo.signature() then gives exactly that name and email.
C24_UserConfigured ==
    [][\A n \in UserNames, e \in UserEmails :
          (config_git_repo_user(n, e) /\ last'.ok)
              => /\ config'.vals["user.name"] = n
                 /\ config'.vals["user.email"] = e
                 /\ signature(config') = [ok |-> TRUE, name |-> n, email |-> e]]_vars

\* C25: config_git_repo_kv_str(name, value) calls set_str only when the key
\* is not set or holds another value; when it returns Ok it returns true
\* exactly in that case and the key then holds the value; it fails only when
\* that write fails, leaving the configuration as it was; and the same call
\* on the configuration a successful call left returns false and writes
\* nothing.
C25_KvStrIdempotent ==
    \A k \in ConfigKeys, v \in UserNames \cup UserEmails :
        LET r == config_git_repo_kv_str(config, k, v)
            again == config_git_repo_kv_str(r.cfg, k, v)
        IN  /\ r.wrote <=> (config.vals[k] # v)
            /\ r.ok => /\ r.ret <=> (config.vals[k] # v)
                       /\ r.cfg.vals[k] = v
                       /\ \A o \in ConfigKeys \ {k} : r.cfg.vals[o] = config.vals[o]
                       /\ again = [ok |-> TRUE, ret |-> FALSE, wrote |-> FALSE, cfg |-> r.cfg]
            /\ ~r.ok => r.wrote /\ r.cfg = config

\* A call that found user.name as given and wrote user.email, which held
\* another value.
C25_WroteOneKey ==
    /\ last.op = "config" /\ last.ok
    /\ last.entries = <<"user.email">>
    /\ config.vals["user.name"] = last.name
    /\ config.vals["user.email"] = last.paths[1]

\* C26: a successful switch_git_repo_branch(B, update_workdir = false)
\* attaches HEAD to refs/heads/B and changes nothing else: the working tree,
\* the Index, every branch and tag reference and the object store are as
\* before the call.
C26_SwitchHeadOnly ==
    [][\A b \in Branches :
          (switch_git_repo_branch(b, FALSE) /\ last'.ok)
              => /\ HEAD' = Symbolic(b)
                 /\ UNCHANGED <<workdir, index, heads, tags, blobs, trees, commits, tagobjs>>]_vars

\* A switch of HEAD alone to a branch whose tree differs from the working
\* tree and from the Index, with a tag in the repository.
C26_HeadOnly ==
    /\ last.op = "switch_head" /\ last.ok
    /\ HEAD = Symbolic(last.name)
    /\ heads[last.name] = last.oid
    /\ workdir # TreeFiles(last.oid)
    /\ index # Target(last.oid)
    /\ \E t \in TagNames : tags[t] # NoTag

\* C27: switch_git_repo_branch to a branch that does not exist returns an
\* error and leaves HEAD, the Index and the working tree as they were; a
\* switch never attaches HEAD to a branch that does not exist.
C27_SwitchMissingBranch ==
    [][\A b \in Branches, u \in BOOLEAN :
          switch_git_repo_branch(b, u)
              => /\ heads[b] = NoRef
                       => (~last'.ok /\ UNCHANGED <<HEAD, index, workdir>>)
                 /\ HEAD' # HEAD
                       => (HEAD'.kind = "symbolic" /\ heads'[HEAD'.branch] # NoRef)]_vars

\* A failed switch in a repository with a commit, a branch that does not
\* exist, staged entries and files on disk.
C27_SwitchRefused ==
    /\ last.op = "switch" /\ ~last.ok
    /\ head_ok
    /\ \E b \in Branches : heads[b] = NoRef
    /\ Staged(index) # {}
    /\ \E p \in Paths : workdir[p] # NoBlob

\* C28: in switch_git_repo_branch with update_workdir = true every write or
\* removal of a file of the working tree happens with HEAD already attached
\* to the target branch; when the checkout fails partway the call returns an
\* error with HEAD attached to the target branch, and neither HEAD nor the
\* files already written or removed are put back.
C28_HeadFirst ==
    [][/\ (last.op \in InCall /\ workdir' # workdir)
          => (HEAD = Symbolic(last.name) /\ HEAD' = HEAD)
       /\ (last.op \in InCall /\ last'.op = "switch" /\ ~last'.ok)
          => /\ HEAD' = Symbolic(last'.name)
             /\ UNCHANGED <<heads, workdir, index>>
       /\ (last.op = "switch" /\ ~last.ok /\ last' = Idle)
          => UNCHANGED <<HEAD, heads, workdir, index>>]_vars

\* A switch from main to b1, which is at another commit, that failed after
\* one file was removed and before another was: HEAD is at b1 and the working
\* tree is not the tree of b1.
C28_FailedPartway ==
    /\ last.op = "switch" /\ ~last.ok
    /\ last.name = "b1" /\ heads["main"] # heads["b1"]
    /\ HEAD = Symbolic(last.name)
    /\ \E p \in Paths : last.acts[p] = "done"
    /\ \E q \in Pending(last.acts) : workdir[q] # TreeFiles(last.oid)[q]

\* C29: reset_git_repo_head with a commit identity the object store does not
\* hold returns an error and changes nothing: HEAD, every branch, the Index
\* and the working tree are as before the call.
C29_ResetUnknownCommit ==
    [][\A c \in OidArgs :
          (reset_git_repo_head(c) /\ c \notin 1..Len(commits))
              => /\ ~last'.ok
                 /\ UNCHANGED <<HEAD, heads, tags, index, workdir>>]_vars

\* A failed reset in a repository where HEAD resolves to a commit, with
\* staged entries and files on disk that differ from that commit's tree.
C29_ResetRefused ==
    /\ last.op = "reset" /\ ~last.ok
    /\ head_ok
    /\ Attached
    /\ Staged(index) # {}
    /\ workdir # TreeFiles(HeadCommit)

\* C30: upsert_branch_to_git_repo(name, ..) changes at most refs/heads/<name>:
\* HEAD keeps its attachment, the Index, the working tree, every other branch,
\* every tag and the object store are as before the call, and unless HEAD is
\* attached to <name> the commit HEAD resolves to is the same.
C30_UpsertBranchFrame ==
    [][\A b \in Branches, c \in {NoTarget} \cup OidArgs :
          upsert_branch_to_git_repo(b, c)
              => /\ HEAD' = HEAD
                 /\ UNCHANGED <<index, workdir, tags, blobs, trees, commits, tagobjs>>
                 /\ \A o \in Branches \ {b} : heads'[o] = heads[o]
                 /\ (head_ok /\ ~(Attached /\ HEAD.branch = b))
                       => (head_ok' /\ HeadCommit' = HeadCommit)]_vars

\* A branch other than HEAD's moved to the first commit while HEAD is at the
\* second, with a tag, staged entries and a working tree that is not the
\* tree of the first commit.
C30_BranchMovedAside ==
    /\ last.op = "branch" /\ last.ok
    /\ last.oid = 1 /\ heads[last.name] = 1
    /\ Attached /\ HEAD.branch # last.name
    /\ HeadCommit = 2
    /\ workdir # TreeFiles(1)
    /\ index # Target(1)
    /\ \E t \in TagNames : tags[t] # NoTag

\* C31, as stated: commit_index_to_git_repo leaves the Index and the working
\* tree unchanged and commits every entry of the Index, those staged before
\* an earlier commit included; and an entry leaves the Index only when
\* add_files_to_git_repo_index unstages it, clean_git_repo_index clears the
\* Index, or reset_git_repo_head rewrites it.
C31_IndexPersists ==
    [][/\ commit_index_to_git_repo
          => /\ UNCHANGED <<index, workdir>>
             /\ TreeMap(commits'[Len(commits')].tree) = index
       /\ (\E p \in Paths : index[p] # NoBlob /\ index'[p] = NoBlob)
          => last'.op \in {"add", "clean", "reset"}]_vars

\* C32, as stated: when add_files_to_git_repo_index fails on a path partway
\* through its list, the Index every later operation sees is the Index as it
\* was before the call.
C32_AddAllOrNothing ==
    [][\A ps \in AddInputsAny :
          (add_files_to_git_repo_index(ps) /\ ~last'.ok) => index' = index]_vars

\* C33: commit_index_to_git_repo while HEAD is detached returns Ok, makes a
\* commit whose only parent is the commit HEAD was at, moves HEAD to the new
\* commit, still detached, and leaves every branch as it was.
C33_DetachedCommit ==
    [][(commit_index_to_git_repo /\ ~Attached)
          => /\ last'.ok
             /\ commits'[Len(commits')].parents = <<HEAD.oid>>
             /\ HEAD' = Direct(Len(commits'))
             /\ last'.oid = Len(commits')
             /\ heads' = heads
             /\ LET c == CommitResult(HEAD, heads, commits, index)
                IN  commits' = c.commits /\ HEAD' = c.HEAD /\ heads' = c.heads]_vars

\* A commit made after a reset detached HEAD at the first commit: HEAD is at
\* the new commit and main is where it was.
C33_CommittedDetached ==
    /\ last.op = "commit" /\ last.ok
    /\ HEAD = Direct(last.oid)
    /\ last.oid = 2
    /\ commits[2].parents = <<1>>
    /\ heads["main"] = 1

\* C34, as stated: from a state on branch main with commits C1 then C2 (no
\* ignored file in either, the Index and working tree holding C2's files), the calls main makes next
\* (reset to C1, clean the Index, commit, restore) leave HEAD attached to
\* main, main at the new commit C3 whose only parent is C1 and whose tree is
\* empty, and no file in the working tree.
C34_MainFinalState ==
    (/\ last = Idle
     /\ HEAD = Symbolic("main")
     /\ Len(commits) = 2
     /\ heads["main"] = 2
     /\ commits[2].parents = <<1>>
     /\ index = Target(2)
     /\ workdir = TreeFiles(2)
     /\ \A p \in IgnoredPaths : workdir[p] = NoBlob /\ Target(1)[p] = NoBlob)
        => /\ MainTail.ok
           /\ MainTail.HEAD = Symbolic("main")
           /\ MainTail.heads["main"] = MainTail.oid
           /\ MainTail.commit.parents = <<1>>
           /\ MainTail.commit.tree = EmptyTree
           /\ \A p \in Paths : MainTail.workdir[p] = NoBlob


\* C35: upsert_tag_to_git_repo on a tag name that exists, with a target that
\* resolves, succeeds; refs/tags/<name> then points at the new Tag object,
\* the Tag object it pointed at before stays in the object store, and the
\* branches, HEAD, the Index and the working tree are unchanged.
C35_RetagOverwrites ==
    [][\A t \in TagNames, c \in {NoTarget} \cup OidArgs :
          (upsert_tag_to_git_repo(t, c) /\ tags[t] # NoTag /\ TargetOk(c))
             => /\ last'.ok
                /\ tags'[t] = TagId(Len(tagobjs) + 1)
                /\ tags'[t] # tags[t]
                /\ Len(tagobjs') = Len(tagobjs) + 1
                /\ tagobjs'[Len(tagobjs')].target = TargetCommit(c)
                /\ \A i \in 1..Len(tagobjs) : tagobjs'[i] = tagobjs[i]
                /\ UNCHANGED <<heads, HEAD, index, workdir>>]_vars

\* refs/tags/t1 was moved from the first Tag object (on commit 1) to the
\* second (on commit 2); both objects are in the store.
C35_TagMoved ==
    /\ last.op = "tag" /\ last.ok /\ last.name = "t1"
    /\ tags["t1"] = TagId(2)
    /\ Len(tagobjs) = 2
    /\ tagobjs[1].target = 1
    /\ tagobjs[2].target = 2


\* C36: called with no commit, upsert_branch, upsert_tag, traverse and lookup
\* use the commit HEAD resolves to (the branch and the tag end on it, the
\* entries returned are those of its tree); when HEAD does not resolve each
\* of them fails and no branch, tag or HEAD changes.
C36_DefaultTargetIsHead ==
    [][/\ \A b \in Branches :
            upsert_branch_to_git_repo(b, NoTarget)
               => IF head_ok
                  THEN last'.ok => heads'[b] = HeadCommit /\ last'.oid = HeadCommit
                  ELSE ~last'.ok /\ UNCHANGED <<heads, tags, HEAD>>
       /\ \A t \in TagNames :
            upsert_tag_to_git_repo(t, NoTarget)
               => IF head_ok
                  THEN /\ last'.ok
                       /\ tags'[t].kind = "tag"
                       /\ tagobjs'[tags'[t].id].target = HeadCommit
                       /\ last'.oid = HeadCommit
                  ELSE ~last'.ok /\ UNCHANGED <<heads, tags, HEAD>>
       /\ traverse_git_repo_commit_tree_recorder(NoTarget)
               => IF head_ok
                  THEN /\ last'.ok
                       /\ last'.oid = HeadCommit
                       /\ last'.entries = Recorder(walk(commits[HeadCommit].tree, <<>>, 1))
                  ELSE ~last'.ok /\ UNCHANGED <<heads, tags, HEAD>>
       /\ \A p \in Paths \cup DirPaths :
            lookup_entry_from_git_repo_commit_tree_by_path(NoTarget, p)
               => IF head_ok
                  THEN /\ last'.ok
                       /\ last'.oid = HeadCommit
                       /\ LET got == get_path(commits[HeadCommit].tree, p)
                          IN  last'.entries = IF got.res = "ok"
                                              THEN <<TreeEntry(p, got.oid, got.kind)>>
                                              ELSE <<>>
                  ELSE ~last'.ok /\ UNCHANGED <<heads, tags, HEAD>>]_vars

\* upsert_tag failed on a repository with a staged file and no commit: HEAD
\* does not resolve, and no tag or branch exists.
C36_TagFailedOnUnbornHead ==
    /\ last.op = "tag" /\ ~last.ok
    /\ ~head_ok
    /\ index[<<"a">>] # NoBlob
    /\ tags["t1"] = NoTag
    /\ \A b \in Branches : heads[b] = NoRef


\* C37: once a commit exists, HEAD resolves to a commit of the object store
\* in every reachable state, whatever sequence of add, commit, upsert_branch,
\* upsert_tag, switch, reset, clean and restore led to it.
C37_HeadResolves ==
    commits # <<>> => head_ok /\ find_commit(HeadCommit)

\* A switch to a branch that does not exist failed after two commits and a
\* reset: HEAD is still detached at the first commit.
C37_HeadKeptByFailedSwitch ==
    /\ last.op = "switch" /\ ~last.ok
    /\ Len(commits) = 2
    /\ HEAD = Direct(1)


C39_RunCounts ==
    bench.done
       => /\ bench.result.total_runs = bench.iterations
          /\ bench.result.successful_runs = bench.iterations - bench.failed
          /\ bench.result.failed_runs = bench.failed
          /\ Len(bench.result.durations) = bench.iterations - bench.failed


\* C40: BenchmarkResult::new on a non-empty vector indexes inside it and
\* returns the durations in ascending order (the same durations it was
\* given), each percentile the element at index min(floor(n * P / 100),
\* n - 1) of them counted from 0, the average floor(sum / n), with
\* min <= pct50 <= pct90 <= pct95 <= max and min <= avg <= max; on an empty
\* vector the average and the three percentiles are zero.
C40_Percentiles ==
    bench.done =>
      LET r == bench.result
          n == Len(bench.durations)
          ds == r.durations
          Idx(P) == IF (n * P) \div 100 <= n - 1 THEN (n * P) \div 100 ELSE n - 1
          Count(s, d) == Cardinality({i \in 1..Len(s) : s[i] = d})
      IN  IF n = 0
          THEN /\ r.avg_duration = 0
               /\ r.pct50_duration = 0
               /\ r.pct90_duration = 0
               /\ r.pct95_duration = 0
          ELSE /\ Len(ds) = n
               /\ \A d \in Elapsed : Count(ds, d) = Count(bench.durations, d)
               /\ \A i \in 1..(n - 1) : ds[i] <= ds[i + 1]
               /\ \A P \in {50, 90, 95} : Idx(P) \in 0..(n - 1)
               /\ r.pct50_duration = ds[Idx(50) + 1]
               /\ r.pct90_duration = ds[Idx(90) + 1]
               /\ r.pct95_duration = ds[Idx(95) + 1]
               /\ r.avg_duration * n <= sum(bench.durations)
               /\ sum(bench.durations) < (r.avg_duration + 1) * n
               /\ ds[1] <= r.pct50_duration
               /\ r.pct50_duration <= r.pct90_duration
               /\ r.pct90_duration <= r.pct95_duration
               /\ r.pct95_duration <= ds[n]
               /\ ds[1] <= r.avg_duration
               /\ r.avg_duration <= ds[n]

\* Twenty durations pushed out of order (a slow one first, a slower one
\* later): the three percentiles and the average all differ.
C40_SpreadPercentiles ==
    /\ bench.done
    /\ Len(bench.durations) = MaxIterations
    /\ bench.durations[1] = 5
    /\ bench.result.pct50_duration = 1
    /\ bench.result.pct90_duration = 2
    /\ bench.result.pct95_duration = 5

====
